---- MODULE Spec2Model ----
(***************************************************************************)
(* Model of the multi-repository execution engine of rrepos:               *)
(*   - the dispatcher of `run` and `pr` (commands/run.rs, commands/pr.rs,  *)
(*     main.rs), sequential and --parallel;                                *)
(*   - CommandRunner::run_command and prepare_log_file (runner.rs): the    *)
(*     directory check, the transcript, the child process, the two stream  *)
(*     pumps spawned on the tokio scheduler and the lock they share;       *)
(*   - create_pull_request (github/api.rs) with the git steps of git.rs;   *)
(*   - the dispatchers of `clone` and `rm` (main.rs) and the counter of    *)
(*     create_pull_requests;                                               *)
(*   - the config module: filters, get_target_dir, load and validation,    *)
(*     add_repository and remove_repository (config/).                     *)
(***************************************************************************)
EXTENDS Integers, Sequences, FiniteSets, TLC

\* ---- bounds of the model ----
NumRepos == 2        \* longest filtered repository list
BatchRepos == 3      \* length of the list of a batch of silent operations
MaxLines == 4        \* lines the child of a single repository writes
MaxBatchLines == 1   \* lines all the children of a longer list write
MaxWorkers == 2      \* most scheduler worker threads (one per CPU)
MaxTick == 2         \* last clock reading, in ticks
MaxRuns == 2         \* process invocations in one behaviour
MaxNames == 2        \* longest list of names given to a filter
MaxDepth == 1        \* most directory names in a path below its start
PipeCap == 1         \* lines an OS pipe holds before the writer blocks

\* ---- program constants ----
TicksPerSec == 2     \* clock ticks per second; %H%M%S keeps whole seconds

Repos == 1..(IF BatchRepos > NumRepos THEN BatchRepos ELSE NumRepos)
Streams == {"out", "err"}
NoFile == <<>>                      \* log_file = None
Absent == << <<"absent", 0, 0>> >>   \* no file at a path
NoStatus == <<"none", 0>>
\* what Child::wait can return: an exit code, or termination by a signal
ExitStatuses == {<<"code", 0>>, <<"code", 1>>, <<"signal", 0>>}
Other(s) == IF s = "out" THEN "err" ELSE "out"
\* Result<()> of an operation: Ok(()), or the error and its exit code
NoResult == <<"none", 0>>
Ok == <<"ok", 0>>
Err(kind, code) == <<kind, code>>

VARIABLES
  cmdKind,     \* "run", "pr", "clone" or "rm": the subcommand
  createOnly,  \* the --create-only flag of pr
  parallel,    \* the --parallel flag
  nrepos,      \* length of the filtered repository list
  numWorkers,  \* worker threads of the tokio runtime
  run,         \* number of the process invocation
  dpc,         \* dispatcher position: "init", "loop", "done"; "load" and
               \* "failed" where the loading of the catalog is modelled
  idx,         \* loop index of the dispatcher
  created,     \* repositories whose future has been constructed
  invoked,     \* per repository: times the operation was started
  rpc,         \* per repository: position inside the operation
  result,      \* per repository: NoResult, Ok or Err(..)
  reported,    \* repositories whose error was printed by the dispatcher
  clock,       \* the wall clock (Utc::now()) of this process run, in ticks
  logDir,      \* the log directory exists
  files,       \* transcript path -> lines
  logFile,     \* per repository: path of its transcript (log_file), or NoFile
  child,       \* per repository: "none", "running", "hung", "exited"
  status,      \* per repository: exit status of the child
  outW, errW,  \* per repository: lines written to each pipe
  outR, errR,  \* per repository: lines read from each pipe
  pump,        \* per repository and stream: the pump task
  lock,        \* per repository: holder of the transcript mutex
  readyQ,      \* run queue of the scheduler
  linesLeft,   \* lines the children may still write
  blockingOn,  \* kinds of thread on which a blocking call has executed
  git,         \* per repository: state of the working copy
  config,      \* Config.repositories: the catalog in memory
  call,        \* the arguments of the call made on the config module
  ret          \* what that call returned

vars == <<cmdKind, createOnly, parallel, nrepos, numWorkers, run, dpc, idx, created,
          invoked, rpc, result, reported, clock, logDir, files, logFile,
          child, status, outW, errW, outR, errR, pump, lock, readyQ,
          linesLeft, blockingOn, git, config, call, ret>>

\* the config module: the catalog and one call on it
catVars == <<config, call, ret>>
dispVars == <<dpc, idx, created, reported, invoked>>
confVars == <<cmdKind, createOnly, parallel, nrepos, numWorkers, catVars>>
fsVars == <<clock, logDir, files>>
childVars == <<child, status, outW, errW, linesLeft>>
pumpVars == <<pump, lock, readyQ, outR, errR>>
runVars == <<rpc, result>>

\* ---- transcript paths and lines ----
\* Utc::now().format("%Y%m%d_%H%M%S"): the tick truncated to its second
FormatTimestamp(t) == t \div TicksPerSec
\* format!("{}/{}_{}.log", log_dir, repo.name, timestamp); one log directory
LogFilePath(r, t) == <<r, FormatTimestamp(t)>>
Paths == {LogFilePath(r, t) : r \in Repos, t \in 0..MaxTick}

\* the header block of prepare_log_file
Header(r) ==
  << <<"Repository", r, 0>>, <<"Command", r, 0>>, <<"Directory", r, 0>>,
     <<"Timestamp", r, 0>>, <<"=== STDOUT ===", r, 0>> >>
Marker(r) == <<"=== STDERR ===", r, 0>>
\* writeln!(log_file, "{repo_name} | {line}")
LogLine(r, s, k) == <<s, r, k>>

\* a pump task: its position, the line it holds, header_written, and the
\* lines of its stream for which reader.lines() yielded Err
IdlePump == [pc |-> "none", line |-> 0, hw |-> FALSE, bad |-> {}]

NoCall == <<"none">>
NoRet == <<"none">>

\* the dispatcher, the runner and the file system when the process starts
EngineStart ==
  /\ run = 1
  /\ idx = 1 /\ created = {} /\ reported = {}
  /\ invoked = [r \in Repos |-> 0]
  /\ rpc = [r \in Repos |-> "idle"]
  /\ result = [r \in Repos |-> NoResult]
  /\ clock = 0 /\ logDir = FALSE
  /\ files = [p \in Paths |-> Absent]
  /\ logFile = [r \in Repos |-> NoFile]
  /\ child = [r \in Repos |-> "none"]
  /\ status = [r \in Repos |-> NoStatus]
  /\ outW = [r \in Repos |-> 0] /\ errW = [r \in Repos |-> 0]
  /\ outR = [r \in Repos |-> 0] /\ errR = [r \in Repos |-> 0]
  /\ pump = [r \in Repos |-> [s \in Streams |-> IdlePump]]
  /\ lock = [r \in Repos |-> "free"]
  /\ readyQ = <<>>
  /\ linesLeft = (IF nrepos <= 1 THEN MaxLines
                  ELSE IF nrepos <= NumRepos THEN MaxBatchLines ELSE 0)
  /\ blockingOn = {}
  /\ git \in [Repos -> {[dirty |-> d, branch |-> FALSE, commits |-> 0,
                         pushed |-> FALSE, prs |-> 0] :
                        d \in IF cmdKind = "pr" THEN BOOLEAN ELSE {FALSE}}]
  /\ \A r \in Repos : r > nrepos => ~git[r].dirty

\* the command line is parsed and the catalog is loaded and filtered; the
\* model of the engine keeps only the length of the filtered list
Init ==
  /\ cmdKind \in {"run", "pr"}
  /\ createOnly \in (IF cmdKind = "pr" THEN BOOLEAN ELSE {FALSE})
  /\ parallel \in BOOLEAN
  /\ nrepos \in 0..NumRepos
  /\ numWorkers \in 1..MaxWorkers
  /\ dpc = "init"
  /\ EngineStart
  /\ config = <<>> /\ call = NoCall /\ ret = NoRet

\* ---- the dispatcher: RunCommand::execute, PrCommand::execute ----

\* (mutant) every constructed operation may start at once, as spawned tasks do
CanStart_spawned(r) == dpc = "loop" /\ r \in 1..nrepos /\ rpc[r] = "idle"

\* the repositories the loop has reached: `task.await` in --parallel mode,
\* the direct call otherwise; a future constructed by map/collect does not run
CanStart(r) == dpc = "loop" /\ idx = r /\ rpc[r] = "idle"

\* (mutant) the result propagated with `?`: the first error ends the loop
AfterResult_abort(res) == IF res # Ok \/ idx = nrepos THEN "done" ELSE "loop"

\* `if let Err(e) = ... { eprintln! }`: the loop goes on whatever the result
AfterResult(res) == IF idx = nrepos THEN "done" ELSE "loop"

\* filter_repositories, the early return on an empty list, and in --parallel
\* mode the construction of one future per repository
Dispatch ==
  /\ dpc = "init"
  /\ dpc' = IF nrepos = 0 THEN "done" ELSE "loop"
  /\ created' = IF parallel THEN 1..nrepos ELSE {}
  /\ UNCHANGED <<idx, reported, invoked, confVars, run, runVars, fsVars,
                 logFile, childVars, pumpVars, blockingOn, git>>

\* (mutant) the result of the operation propagated with `?` out of execute
LoopNext_propagate ==
  /\ dpc = "loop" /\ rpc[idx] = "done"
  /\ reported' = reported
  /\ dpc' = IF result[idx] # Ok THEN "failed" ELSE AfterResult(result[idx])
  /\ idx' = idx + 1
  /\ UNCHANGED <<created, invoked, confVars, run, runVars, fsVars, logFile,
                 childVars, pumpVars, blockingOn, git>>

\* the awaited operation has returned: report an error, take the next one
LoopNext ==
  /\ dpc = "loop" /\ rpc[idx] = "done"
  /\ reported' = IF result[idx] = Ok THEN reported ELSE reported \cup {idx}
  /\ dpc' = AfterResult(result[idx])
  /\ idx' = idx + 1
  /\ UNCHANGED <<created, invoked, confVars, run, runVars, fsVars, logFile,
                 childVars, pumpVars, blockingOn, git>>

\* ---- CommandRunner::run_command ----

Finish(r, res) ==
  /\ rpc' = [rpc EXCEPT ![r] = "done"]
  /\ result' = [result EXCEPT ![r] = res]

\* (mutant) the log file prepared before the directory is checked
RunStart_logFirst(r) ==
  /\ cmdKind = "run" /\ CanStart(r)
  /\ invoked' = [invoked EXCEPT ![r] = @ + 1]
  /\ logDir' = TRUE
  /\ files' = [files EXCEPT ![LogFilePath(r, clock)] = Header(r)]
  /\ \E exists \in BOOLEAN :
       IF exists
         THEN /\ rpc' = [rpc EXCEPT ![r] = "spawn"] /\ UNCHANGED result
              /\ logFile' = [logFile EXCEPT ![r] = LogFilePath(r, clock)]
         ELSE Finish(r, Err("DirectoryMissing", 0)) /\ UNCHANGED logFile
  /\ UNCHANGED <<dpc, idx, created, reported, confVars, run, clock,
                 childVars, pumpVars, blockingOn, git>>

\* the operation starts; Path::new(&repo_dir).exists()
RunStart(r) ==
  /\ cmdKind = "run" /\ CanStart(r)
  /\ invoked' = [invoked EXCEPT ![r] = @ + 1]
  /\ \E exists \in BOOLEAN :
       IF exists
         THEN rpc' = [rpc EXCEPT ![r] = "prep"] /\ UNCHANGED result
         ELSE Finish(r, Err("DirectoryMissing", 0))
  /\ UNCHANGED <<dpc, idx, created, reported, confVars, run, fsVars, logFile,
                 childVars, pumpVars, blockingOn, git>>

\* (mutant) the file is created but its header block is not written
PrepareLogFile_noHeader(r) ==
  /\ rpc[r] = "prep"
  /\ rpc' = [rpc EXCEPT ![r] = "spawn"] /\ UNCHANGED result
  /\ logDir' = TRUE
  /\ files' = [files EXCEPT ![LogFilePath(r, clock)] = <<>>]
  /\ logFile' = [logFile EXCEPT ![r] = LogFilePath(r, clock)]
  /\ UNCHANGED <<dispVars, confVars, run, clock, childVars, pumpVars,
                 blockingOn, git>>

\* (mutant) a transcript that cannot be prepared is done without: the
\* command is run with no log file
PrepareLogFile_optional(r) ==
  /\ rpc[r] = "prep"
  /\ rpc' = [rpc EXCEPT ![r] = "spawn"] /\ UNCHANGED result
  /\ LET path == LogFilePath(r, clock) IN
     \E fail \in {"none", "create"} :
       IF fail = "none"
         THEN /\ logDir' = TRUE
              /\ files' = [files EXCEPT ![path] = Header(r)]
              /\ logFile' = [logFile EXCEPT ![r] = path]
         ELSE UNCHANGED <<logDir, files, logFile>>
  /\ UNCHANGED <<dispVars, confVars, run, clock, childVars, pumpVars,
                 blockingOn, git>>

\* prepare_log_file: create_dir_all, Utc::now(), File::create (truncating),
\* five writeln!; any of them can fail after k lines, and `?` then ends
\* run_command
PrepareLogFile(r) ==
  /\ rpc[r] = "prep"
  /\ LET path == LogFilePath(r, clock) IN
     \E fail \in {"none", "mkdir", "create", "write"} :
       CASE fail = "mkdir" ->
              /\ ~logDir
              /\ Finish(r, Err("LogError", 0))
              /\ UNCHANGED <<logDir, files, logFile>>
         [] fail = "create" ->
              /\ Finish(r, Err("LogError", 0))
              /\ logDir' = TRUE
              /\ UNCHANGED <<files, logFile>>
         [] fail = "write" ->
              /\ Finish(r, Err("LogError", 0))
              /\ logDir' = TRUE
              /\ \E k \in 0..(Len(Header(r)) - 1) :
                   files' = [files EXCEPT ![path] = SubSeq(Header(r), 1, k)]
              /\ UNCHANGED logFile
         [] fail = "none" ->
              /\ rpc' = [rpc EXCEPT ![r] = "spawn"] /\ UNCHANGED result
              /\ logDir' = TRUE
              /\ files' = [files EXCEPT ![path] = Header(r)]
              /\ logFile' = [logFile EXCEPT ![r] = path]
  /\ UNCHANGED <<dispVars, confVars, run, clock, childVars, pumpVars,
                 blockingOn, git>>

\* ---- the scheduler and the two pumps (tokio::spawn) ----

\* tokio::spawn puts the pump on a worker thread of the runtime
PumpThread == "worker"

OnThread(r, s) == pump[r][s].pc \in {"read", "lock", "marker", "write"}
BusyWorkers ==
  Cardinality({x \in Repos \X Streams :
                 OnThread(x[1], x[2]) /\ PumpThread = "worker"})

\* (mutant) header_written is never consulted
AfterLock_always(r, s) ==
  IF s = "err" /\ logFile[r] # NoFile THEN "marker" ELSE "write"

\* where a pump goes on once it holds the lock: the stderr pump writes the
\* marker first while header_written is false
AfterLock(r, s) ==
  IF s = "err" /\ logFile[r] # NoFile /\ ~pump[r][s].hw THEN "marker"
  ELSE "write"

\* Command::new("sh").arg("-c")...spawn()?, then the two tokio::spawn
SpawnChild(r) ==
  /\ rpc[r] = "spawn"
  /\ blockingOn' = blockingOn \cup {"async"}
  /\ \E ok \in BOOLEAN :
       IF ok
         THEN /\ rpc' = [rpc EXCEPT ![r] = "join"] /\ UNCHANGED result
              /\ child' = [child EXCEPT ![r] = "running"]
              /\ pump' = [pump EXCEPT ![r] =
                            [s \in Streams |-> [IdlePump EXCEPT !.pc = "ready"]]]
              /\ readyQ' = readyQ \o << <<r, "out">>, <<r, "err">> >>
         ELSE /\ Finish(r, Err("SpawnError", 0))
              /\ UNCHANGED <<child, pump, readyQ>>
  /\ UNCHANGED <<dispVars, confVars, run, fsVars, logFile, status, outW, errW,
                 linesLeft, lock, outR, errR, git>>

\* a free worker takes the task at the head of the run queue: a pump that was
\* just spawned, or one woken with the lock handed to it
WorkerPoll ==
  /\ readyQ # <<>>
  /\ BusyWorkers < numWorkers
  /\ LET r == Head(readyQ)[1]
         s == Head(readyQ)[2] IN
       pump' = [pump EXCEPT ![r][s].pc =
                  IF @ = "ready" THEN "read" ELSE AfterLock(r, s)]
  /\ readyQ' = Tail(readyQ)
  /\ UNCHANGED <<dispVars, confVars, run, runVars, fsVars, logFile, childVars,
                 lock, outR, errR, blockingOn, git>>

Written(r, s) == IF s = "out" THEN outW[r] ELSE errW[r]
Consumed(r, s) == IF s = "out" THEN outR[r] ELSE errR[r]

\* reader.lines() yields Ok(line); println!/eprintln! of the line
PumpRead(r, s) ==
  /\ pump[r][s].pc = "read"
  /\ Consumed(r, s) < Written(r, s)
  /\ pump' = [pump EXCEPT ![r][s].pc = "lock", ![r][s].line = Consumed(r, s) + 1]
  /\ outR' = IF s = "out" THEN [outR EXCEPT ![r] = @ + 1] ELSE outR
  /\ errR' = IF s = "err" THEN [errR EXCEPT ![r] = @ + 1] ELSE errR
  /\ blockingOn' = blockingOn \cup {PumpThread}
  /\ UNCHANGED <<dispVars, confVars, run, runVars, fsVars, logFile, childVars,
                 lock, readyQ, git>>

\* reader.lines() yields Err for a line that is not valid UTF-8: read_line has
\* consumed the bytes of the line; `if let Ok(line) = line` has no else
\* branch, so the body is skipped and the for loop asks for the next item
PumpReadErr(r, s) ==
  /\ pump[r][s].pc = "read"
  /\ Consumed(r, s) < Written(r, s)
  /\ pump' = [pump EXCEPT ![r][s].bad = @ \cup {Consumed(r, s) + 1}]
  /\ outR' = IF s = "out" THEN [outR EXCEPT ![r] = @ + 1] ELSE outR
  /\ errR' = IF s = "err" THEN [errR EXCEPT ![r] = @ + 1] ELSE errR
  /\ blockingOn' = blockingOn \cup {PumpThread}
  /\ UNCHANGED <<dispVars, confVars, run, runVars, fsVars, logFile, childVars,
                 lock, readyQ, git>>

\* (mutant) the pump stops as soon as it finds the pipe empty
PumpEof_early(r, s) ==
  /\ pump[r][s].pc = "read"
  /\ Consumed(r, s) = Written(r, s)
  /\ pump' = [pump EXCEPT ![r][s].pc = "done"]
  /\ UNCHANGED <<dispVars, confVars, run, runVars, fsVars, logFile, childVars,
                 lock, readyQ, outR, errR, blockingOn, git>>

\* reader.lines() ends: the pipe is empty and its write end is closed
PumpEof(r, s) ==
  /\ pump[r][s].pc = "read"
  /\ Consumed(r, s) = Written(r, s)
  /\ child[r] = "exited"
  /\ pump' = [pump EXCEPT ![r][s].pc = "done"]
  /\ UNCHANGED <<dispVars, confVars, run, runVars, fsVars, logFile, childVars,
                 lock, readyQ, outR, errR, blockingOn, git>>

\* (mutant) try_lock: a pump that finds the lock taken drops its line
PumpLock_try(r, s) ==
  /\ pump[r][s].pc = "lock"
  /\ IF lock[r] = "free"
       THEN /\ lock' = [lock EXCEPT ![r] = s]
            /\ pump' = [pump EXCEPT ![r][s].pc = AfterLock(r, s)]
       ELSE /\ pump' = [pump EXCEPT ![r][s].pc = "read"]
            /\ UNCHANGED lock
  /\ UNCHANGED <<dispVars, confVars, run, runVars, fsVars, logFile, childVars,
                 readyQ, outR, errR, blockingOn, git>>

\* (mutant) the transcript is written without taking the lock
PumpLock_none(r, s) ==
  /\ pump[r][s].pc = "lock"
  /\ pump' = [pump EXCEPT ![r][s].pc = AfterLock(r, s)]
  /\ UNCHANGED <<dispVars, confVars, run, runVars, fsVars, logFile, childVars,
                 lock, readyQ, outR, errR, blockingOn, git>>

\* log_file.lock().await: taken at once when free, else the task yields its
\* worker and waits its turn
PumpLock(r, s) ==
  /\ pump[r][s].pc = "lock"
  /\ IF lock[r] = "free"
       THEN /\ lock' = [lock EXCEPT ![r] = s]
            /\ pump' = [pump EXCEPT ![r][s].pc = AfterLock(r, s)]
       ELSE /\ pump' = [pump EXCEPT ![r][s].pc = "waitlock"]
            /\ UNCHANGED lock
  /\ UNCHANGED <<dispVars, confVars, run, runVars, fsVars, logFile, childVars,
                 readyQ, outR, errR, blockingOn, git>>

\* writeln!(log_file, "\n=== STDERR ==="); header_written = true
PumpMarker(r) ==
  /\ pump[r]["err"].pc = "marker"
  /\ files' = [files EXCEPT ![logFile[r]] = Append(@, Marker(r))]
  /\ pump' = [pump EXCEPT ![r]["err"].pc = "write", ![r]["err"].hw = TRUE]
  /\ UNCHANGED <<dispVars, confVars, run, runVars, clock, logDir, logFile,
                 childVars, lock, readyQ, outR, errR, blockingOn, git>>

\* (mutant) the line stays in a buffer of the process: nothing is flushed
PumpWrite_buffered(r, s) ==
  /\ pump[r][s].pc = "write"
  /\ files' = files
  /\ pump' = [pump EXCEPT ![r][s].pc = "read"]
  /\ IF pump[r][Other(s)].pc = "waitlock"
       THEN /\ lock' = [lock EXCEPT ![r] = Other(s)]
            /\ readyQ' = Append(readyQ, <<r, Other(s)>>)
       ELSE /\ lock' = [lock EXCEPT ![r] = "free"]
            /\ UNCHANGED readyQ
  /\ UNCHANGED <<dispVars, confVars, run, runVars, clock, logDir, logFile,
                 childVars, outR, errR, blockingOn, git>>

\* writeln! of the line, flush, and the guard dropped: the lock goes to the
\* waiting pump, which is woken, or becomes free
PumpWrite(r, s) ==
  /\ pump[r][s].pc = "write"
  /\ files' = IF logFile[r] = NoFile THEN files
              ELSE [files EXCEPT ![logFile[r]] =
                      Append(@, LogLine(r, s, pump[r][s].line))]
  /\ pump' = [pump EXCEPT ![r][s].pc = "read"]
  /\ IF pump[r][Other(s)].pc = "waitlock"
       THEN /\ lock' = [lock EXCEPT ![r] = Other(s)]
            /\ readyQ' = Append(readyQ, <<r, Other(s)>>)
       ELSE /\ lock' = [lock EXCEPT ![r] = "free"]
            /\ UNCHANGED readyQ
  /\ UNCHANGED <<dispVars, confVars, run, runVars, clock, logDir, logFile,
                 childVars, outR, errR, blockingOn, git>>

\* (mutant) the error of the write ends the pump, as `?` or `break` would
PumpWriteFail_stop(r, s) ==
  /\ pump[r][s].pc = "write" /\ logFile[r] # NoFile
  /\ pump' = [pump EXCEPT ![r][s].pc = "done"]
  /\ IF pump[r][Other(s)].pc = "waitlock"
       THEN /\ lock' = [lock EXCEPT ![r] = Other(s)]
            /\ readyQ' = Append(readyQ, <<r, Other(s)>>)
       ELSE /\ lock' = [lock EXCEPT ![r] = "free"]
            /\ UNCHANGED readyQ
  /\ UNCHANGED <<dispVars, confVars, run, runVars, fsVars, logFile,
                 childVars, outR, errR, blockingOn, git>>

\* writeln!(..).ok() and flush().ok() when the write fails: the error is
\* dropped, the file is left as it was, the guard is dropped
PumpWriteFail(r, s) ==
  /\ pump[r][s].pc = "write" /\ logFile[r] # NoFile
  /\ pump' = [pump EXCEPT ![r][s].pc = "read"]
  /\ IF pump[r][Other(s)].pc = "waitlock"
       THEN /\ lock' = [lock EXCEPT ![r] = Other(s)]
            /\ readyQ' = Append(readyQ, <<r, Other(s)>>)
       ELSE /\ lock' = [lock EXCEPT ![r] = "free"]
            /\ UNCHANGED readyQ
  /\ UNCHANGED <<dispVars, confVars, run, runVars, fsVars, logFile,
                 childVars, outR, errR, blockingOn, git>>

\* writeln!(log_file, "\n=== STDERR ===").ok() when the write fails;
\* header_written = true all the same
PumpMarkerFail(r) ==
  /\ pump[r]["err"].pc = "marker"
  /\ pump' = [pump EXCEPT ![r]["err"].pc = "write", ![r]["err"].hw = TRUE]
  /\ UNCHANGED <<dispVars, confVars, run, runVars, fsVars, logFile,
                 childVars, lock, readyQ, outR, errR, blockingOn, git>>

\* ---- the child process ----

\* the child writes one line to a pipe that has room
ChildWrite(r, s) ==
  /\ child[r] = "running"
  /\ Written(r, s) - Consumed(r, s) < PipeCap
  /\ linesLeft > 0
  /\ linesLeft' = linesLeft - 1
  /\ outW' = IF s = "out" THEN [outW EXCEPT ![r] = @ + 1] ELSE outW
  /\ errW' = IF s = "err" THEN [errW EXCEPT ![r] = @ + 1] ELSE errW
  /\ UNCHANGED <<dispVars, confVars, run, runVars, fsVars, logFile, child,
                 status, pumpVars, blockingOn, git>>

\* the child terminates: both pipes are closed
ChildExit(r) ==
  /\ child[r] = "running"
  /\ child' = [child EXCEPT ![r] = "exited"]
  /\ \E st \in ExitStatuses : status' = [status EXCEPT ![r] = st]
  /\ UNCHANGED <<dispVars, confVars, run, runVars, fsVars, logFile, outW, errW,
                 linesLeft, pumpVars, blockingOn, git>>

\* a command that ends once it has written all its output
ChildExitDone(r) == linesLeft = 0 /\ ChildExit(r)

\* the command never terminates (and writes nothing more)
ChildHang(r) ==
  /\ child[r] = "running"
  /\ child' = [child EXCEPT ![r] = "hung"]
  /\ UNCHANGED <<dispVars, confVars, run, runVars, fsVars, logFile, status,
                 outW, errW, linesLeft, pumpVars, blockingOn, git>>

\* ---- the end of run_command ----

\* (mutant) only the stdout pump is awaited
JoinPumps_stdoutOnly(r) ==
  /\ rpc[r] = "join"
  /\ pump[r]["out"].pc = "done"
  /\ rpc' = [rpc EXCEPT ![r] = "wait"]
  /\ UNCHANGED <<result, dispVars, confVars, run, fsVars, logFile, childVars,
                 pumpVars, blockingOn, git>>

\* tokio::join!(stdout_handle, stderr_handle)
JoinPumps(r) ==
  /\ rpc[r] = "join"
  /\ \A s \in Streams : pump[r][s].pc = "done"
  /\ rpc' = [rpc EXCEPT ![r] = "wait"]
  /\ UNCHANGED <<result, dispVars, confVars, run, fsVars, logFile, childVars,
                 pumpVars, blockingOn, git>>

\* (mutant) unwrap_or_default: a status without a code counts as code 0
ExitCode_zero(st) == IF st[1] = "code" THEN st[2] ELSE 0

\* status.code().unwrap_or(-1)
ExitCode(st) == IF st[1] = "code" THEN st[2] ELSE -1
\* status.success() is exit code 0
Outcome(st) == IF st = <<"code", 0>> THEN Ok ELSE Err("ExitCode", ExitCode(st))

\* cmd.wait()? and the result of run_command; the child handle, the pipes,
\* the pump handles and the Arc<Mutex<Option<File>>> are dropped on return
WaitChild(r) ==
  /\ rpc[r] = "wait"
  /\ child[r] = "exited"
  /\ Finish(r, Outcome(status[r]))
  /\ blockingOn' = blockingOn \cup {"async"}
  /\ child' = [child EXCEPT ![r] = "none"]
  /\ status' = [status EXCEPT ![r] = NoStatus]
  /\ outW' = [outW EXCEPT ![r] = 0] /\ errW' = [errW EXCEPT ![r] = 0]
  /\ outR' = [outR EXCEPT ![r] = 0] /\ errR' = [errR EXCEPT ![r] = 0]
  /\ pump' = [pump EXCEPT ![r] = [s \in Streams |-> IdlePump]]
  /\ logFile' = [logFile EXCEPT ![r] = NoFile]
  /\ UNCHANGED <<dispVars, confVars, run, fsVars, linesLeft, lock,
                 readyQ, git>>

\* ---- create_pull_request ----

\* one git subcommand that succeeded, on the thread of the calling task
GitStep(r, next, g) ==
  /\ rpc' = [rpc EXCEPT ![r] = next] /\ UNCHANGED result
  /\ git' = [git EXCEPT ![r] = g]

GitFail(r) == Finish(r, Err("GitError", 0)) /\ UNCHANGED git

\* (mutant) no early return: the steps run on a clean working copy too
PrStart_noCheck(r) ==
  /\ cmdKind = "pr" /\ CanStart(r)
  /\ invoked' = [invoked EXCEPT ![r] = @ + 1]
  /\ blockingOn' = blockingOn \cup {"async"}
  /\ \E ok \in BOOLEAN :
       IF ~ok THEN GitFail(r) ELSE GitStep(r, "branch", git[r])
  /\ UNCHANGED <<dpc, idx, created, reported, confVars, run, fsVars, logFile,
                 childVars, pumpVars>>

\* the operation starts; git::has_changes and the "No changes detected" return
PrStart(r) ==
  /\ cmdKind = "pr" /\ CanStart(r)
  /\ invoked' = [invoked EXCEPT ![r] = @ + 1]
  /\ blockingOn' = blockingOn \cup {"async"}
  /\ \E ok \in BOOLEAN :
       IF ~ok THEN GitFail(r)
       ELSE IF ~git[r].dirty THEN Finish(r, Ok) /\ UNCHANGED git
       ELSE GitStep(r, "branch", git[r])
  /\ UNCHANGED <<dpc, idx, created, reported, confVars, run, fsVars, logFile,
                 childVars, pumpVars>>

\* git::create_and_checkout_branch
PrBranch(r) ==
  /\ rpc[r] = "branch"
  /\ \E ok \in BOOLEAN :
       IF ok THEN GitStep(r, "add", [git[r] EXCEPT !.branch = TRUE])
       ELSE GitFail(r)
  /\ UNCHANGED <<dispVars, confVars, run, fsVars, logFile, childVars, pumpVars,
                 blockingOn>>

\* git::add_all_changes
PrAdd(r) ==
  /\ rpc[r] = "add"
  /\ \E ok \in BOOLEAN :
       IF ok THEN GitStep(r, "commit", git[r]) ELSE GitFail(r)
  /\ UNCHANGED <<dispVars, confVars, run, fsVars, logFile, childVars, pumpVars,
                 blockingOn>>

\* (mutant) the push and the pull request made with --create-only too
PrCommit_pushAlways(r) ==
  /\ rpc[r] = "commit"
  /\ \E ok \in BOOLEAN :
       IF ~ok THEN GitFail(r)
       ELSE /\ git' = [git EXCEPT ![r].dirty = FALSE, ![r].commits = @ + 1]
            /\ rpc' = [rpc EXCEPT ![r] = "push"] /\ UNCHANGED result
  /\ UNCHANGED <<dispVars, confVars, run, fsVars, logFile, childVars, pumpVars,
                 blockingOn>>

\* git::commit_changes, then `if !options.create_only`
PrCommit(r) ==
  /\ rpc[r] = "commit"
  /\ \E ok \in BOOLEAN :
       IF ~ok THEN GitFail(r)
       ELSE /\ git' = [git EXCEPT ![r].dirty = FALSE, ![r].commits = @ + 1]
            /\ IF createOnly THEN Finish(r, Ok)
               ELSE rpc' = [rpc EXCEPT ![r] = "push"] /\ UNCHANGED result
  /\ UNCHANGED <<dispVars, confVars, run, fsVars, logFile, childVars, pumpVars,
                 blockingOn>>

\* (mutant) a failed push undoes the commit and the branch
PrPush_rollback(r) ==
  /\ rpc[r] = "push"
  /\ \E ok \in BOOLEAN :
       IF ok THEN GitStep(r, "api", [git[r] EXCEPT !.pushed = TRUE])
       ELSE /\ Finish(r, Err("GitError", 0))
            /\ git' = [git EXCEPT ![r].dirty = TRUE, ![r].commits = @ - 1,
                                   ![r].branch = FALSE]
  /\ UNCHANGED <<dispVars, confVars, run, fsVars, logFile, childVars, pumpVars,
                 blockingOn>>

\* git::push_branch
PrPush(r) ==
  /\ rpc[r] = "push"
  /\ \E ok \in BOOLEAN :
       IF ok THEN GitStep(r, "api", [git[r] EXCEPT !.pushed = TRUE])
       ELSE GitFail(r)
  /\ UNCHANGED <<dispVars, confVars, run, fsVars, logFile, childVars, pumpVars,
                 blockingOn>>

\* create_github_pr: POST /repos/{owner}/{repo}/pulls
PrApi(r) ==
  /\ rpc[r] = "api"
  /\ \E ok \in BOOLEAN :
       IF ok THEN /\ Finish(r, Ok)
                  /\ git' = [git EXCEPT ![r].prs = @ + 1]
       ELSE Finish(r, Err("ApiError", 0)) /\ UNCHANGED git
  /\ UNCHANGED <<dispVars, confVars, run, fsVars, logFile, childVars, pumpVars,
                 blockingOn>>

\* ---- clone and rm: clone_repositories, remove_repositories ----

\* a task handed to tokio::spawn runs without being awaited
Spawned(r) == dpc = "loop" /\ r \in created /\ rpc[r] = "idle"

\* tokio::spawn(clone_single_repo(..)) in --parallel mode, the awaited call
\* otherwise; the closure is handed to spawn_blocking
BlockingStart(r, kind) ==
  /\ cmdKind = kind
  /\ IF parallel THEN Spawned(r) ELSE CanStart(r)
  /\ invoked' = [invoked EXCEPT ![r] = @ + 1]
  /\ rpc' = [rpc EXCEPT ![r] = kind] /\ UNCHANGED result
  /\ blockingOn' = blockingOn \cup {"blocking"}
  /\ UNCHANGED <<dpc, idx, created, reported, confVars, run, fsVars, logFile,
                 childVars, pumpVars, git>>

CloneStart(r) == BlockingStart(r, "clone")

\* git::clone_repository: an existing target is skipped with Ok, `git clone`
\* succeeds or the error is returned
CloneEnd(r) ==
  /\ rpc[r] = "clone"
  /\ \E exists \in BOOLEAN : \E ok \in BOOLEAN :
       IF exists \/ ok THEN Finish(r, Ok)
       ELSE Finish(r, Err("CloneError", 0))
  /\ UNCHANGED <<dispVars, confVars, run, fsVars, logFile, childVars, pumpVars,
                 blockingOn, git>>

RemoveStart(r) == BlockingStart(r, "rm")

\* git::remove_repository: remove_dir_all on an existing target, an error
\* when the target does not exist
RemoveEnd(r) ==
  /\ rpc[r] = "rm"
  /\ \E exists \in BOOLEAN : \E ok \in BOOLEAN :
       IF ~exists THEN Finish(r, Err("DirectoryMissing", 0))
       ELSE IF ok THEN Finish(r, Ok)
       ELSE Finish(r, Err("RemoveError", 0))
  /\ UNCHANGED <<dispVars, confVars, run, fsVars, logFile, childVars, pumpVars,
                 blockingOn, git>>

\* ---- the program run again: a new process over the same file system ----
\* any time, also less than a second, may have passed since the run before;
\* within one run the repositories have distinct names, so the clock only
\* tells the transcripts of different runs apart
Rerun ==
  /\ dpc = "done" /\ run < MaxRuns
  /\ run' = run + 1
  /\ \E t \in clock..MaxTick : clock' = t
  /\ dpc' = "init" /\ idx' = 1 /\ created' = {} /\ reported' = {}
  /\ invoked' = [r \in Repos |-> 0]
  /\ rpc' = [r \in Repos |-> "idle"]
  /\ result' = [r \in Repos |-> NoResult]
  /\ logFile' = [r \in Repos |-> NoFile]
  /\ child' = [r \in Repos |-> "none"]
  /\ status' = [r \in Repos |-> NoStatus]
  /\ outW' = [r \in Repos |-> 0] /\ errW' = [r \in Repos |-> 0]
  /\ outR' = [r \in Repos |-> 0] /\ errR' = [r \in Repos |-> 0]
  /\ pump' = [r \in Repos |-> [s \in Streams |-> IdlePump]]
  /\ UNCHANGED <<confVars, logDir, files, lock, readyQ, linesLeft,
                 blockingOn, git>>

Next ==
  \/ Dispatch
  \/ LoopNext
  \/ WorkerPoll
  \/ \E r \in Repos :
       \/ RunStart(r) \/ PrepareLogFile(r) \/ SpawnChild(r)
       \/ JoinPumps(r) \/ WaitChild(r)
       \/ PumpMarker(r) \/ ChildExit(r)
       \/ PrStart(r) \/ PrBranch(r) \/ PrAdd(r) \/ PrCommit(r)
       \/ PrPush(r) \/ PrApi(r)
       \/ \E s \in Streams :
            \/ PumpRead(r, s) \/ PumpEof(r, s) \/ PumpLock(r, s)
            \/ PumpWrite(r, s) \/ ChildWrite(r, s)

Spec == Init /\ [][Next]_vars

\* a catalog of one repository, run again and again
InitRerun == Init /\ nrepos = 1
NextRerun == Next \/ Rerun
SpecRerun == InitRerun /\ [][NextRerun]_vars

\* the pr workflow on one repository, run again and again
InitRerunPr == Init /\ cmdKind = "pr" /\ nrepos = 1
NextRerunPr ==
  \/ Dispatch
  \/ LoopNext
  \/ Rerun
  \/ \E r \in Repos :
       \/ PrStart(r) \/ PrBranch(r) \/ PrAdd(r) \/ PrCommit(r)
       \/ PrPush(r) \/ PrApi(r)
SpecRerunPr == InitRerunPr /\ [][NextRerunPr]_vars

\* with commands that may hang; the operating system and the runtime keep
\* running whatever can run
NextHang == Next \/ \E r \in Repos : ChildHang(r)
FairSpec == Init /\ [][NextHang]_vars /\ WF_vars(NextHang)

\* (mutant) every awaited task counted, whatever it returned
success_count_all == IF cmdKind = "pr" THEN idx - 1 ELSE 0

\* create_pull_requests of main.rs: `Ok(_) => success_count += 1` for each
\* awaited task, printed as "Created {success_count} pull requests"; the
\* dispatchers of run, clone and rm have no counter
success_count ==
  IF cmdKind = "pr" THEN Cardinality({r \in 1..(idx - 1) : result[r] = Ok})
  ELSE 0

\* the `Err(e) => eprintln!` arm counts nothing: no dispatcher has a counter
\* of failures, and each of them returns Ok(()) and no count
failed_count == 0

\* main returns the Result of the subcommand: exit code 0 for Ok(()), 1 for
\* Err; no exit code while the process runs
main_exit ==
  IF dpc = "done" THEN <<"exit", 0>>
  ELSE IF dpc = "failed" THEN <<"exit", 1>> ELSE <<"running", 0>>

\* a batch of BatchRepos repositories: clone, rm, pr, and run with commands
\* that print nothing
InitBatch ==
  /\ cmdKind \in {"clone", "rm", "pr", "run"}
  /\ createOnly \in (IF cmdKind = "pr" THEN BOOLEAN ELSE {FALSE})
  /\ parallel \in BOOLEAN
  /\ nrepos = BatchRepos
  /\ numWorkers \in 1..MaxWorkers
  /\ dpc = "init"
  /\ EngineStart
  /\ config = <<>> /\ call = NoCall /\ ret = NoRet
NextBatch ==
  \/ Dispatch
  \/ LoopNext
  \/ WorkerPoll
  \/ \E r \in Repos :
       \/ CloneStart(r) \/ CloneEnd(r) \/ RemoveStart(r) \/ RemoveEnd(r)
       \/ PrStart(r) \/ PrBranch(r) \/ PrAdd(r) \/ PrCommit(r)
       \/ PrPush(r) \/ PrApi(r)
       \/ RunStart(r) \/ PrepareLogFile(r) \/ SpawnChild(r)
       \/ JoinPumps(r) \/ WaitChild(r) \/ ChildExit(r)
       \/ \E s \in Streams : PumpEof(r, s)
SpecBatch == InitBatch /\ [][NextBatch]_vars

\* one command whose output holds lines that are not valid UTF-8
InitIo == Init /\ nrepos = 1
NextIo == Next \/ \E r \in Repos : \E s \in Streams : PumpReadErr(r, s)
SpecIo == InitIo /\ [][NextIo]_vars

\* one command that writes all its output to stderr, more lines than the
\* pipe holds, and then exits; a runtime of 1..MaxWorkers worker threads
InitPipe == Init /\ cmdKind = "run" /\ nrepos = 1
NextPipe ==
  \/ Dispatch
  \/ LoopNext
  \/ WorkerPoll
  \/ \E r \in Repos :
       \/ RunStart(r) \/ PrepareLogFile(r) \/ SpawnChild(r)
       \/ JoinPumps(r) \/ WaitChild(r)
       \/ PumpMarker(r) \/ ChildExitDone(r) \/ ChildWrite(r, "err")
       \/ \E s \in Streams :
            \/ PumpRead(r, s) \/ PumpEof(r, s) \/ PumpLock(r, s)
            \/ PumpWrite(r, s)
SpecPipe == InitPipe /\ [][NextPipe]_vars

\* one command whose transcript is on a file system where writes may fail
InitWriteFail == Init /\ nrepos = 1
NextWriteFail ==
  \/ Next
  \/ \E r \in Repos :
       \/ PumpMarkerFail(r)
       \/ \E s \in Streams : PumpWriteFail(r, s)
SpecWriteFail == InitWriteFail /\ [][NextWriteFail]_vars

\* ---- the config module: Repository, Config, ConfigValidator ----

\* Option<T>
None == <<"none">>
Some(x) == <<"some", x>>

\* everything but the config module at rest
LibraryStart ==
  /\ cmdKind = "run" /\ createOnly = FALSE /\ parallel = FALSE
  /\ nrepos = 0 /\ numWorkers = 1
  /\ dpc = "init"
  /\ EngineStart
libVars == <<cmdKind, createOnly, parallel, nrepos, numWorkers, run, dispVars,
             runVars, fsVars, logFile, childVars, pumpVars, blockingOn, git>>

Range(q) == {q[i] : i \in DOMAIN q}
SeqsUpTo(S, n) == UNION {[1..k -> S] : k \in 0..n}

\* names and tags of catalog entries, a name no entry has, and tag lists
\* as add_tag builds them
RepoNames == {"a", "b"}
QueryNames == RepoNames \cup {"x"}
TagNames == {"t", "u"}
TagLists == {<<>>, <<"t">>, <<"u">>, <<"t", "u">>}

\* Repository::new(name, url) with its tags
Repository(name, url, tags) ==
  [name |-> name, url |-> url, tags |-> tags, path |-> None,
   config_dir |-> None]

\* Repository::has_tag: self.tags.iter().any(|t| t == tag)
has_tag(repo, tag) == \E i \in DOMAIN repo.tags : repo.tags[i] = tag

\* names.contains(&repo.name)
contains(names, name) == \E i \in DOMAIN names : names[i] = name

\* (mutant) an empty list of names is a filter that lets nothing through
filter_by_names_strict(repositories, names) ==
  SelectSeq(repositories, LAMBDA repo : contains(names, repo.name))

\* Config::filter_by_names: an empty list returns the catalog as it is
filter_by_names(repositories, names) ==
  IF names = <<>> THEN repositories
  ELSE SelectSeq(repositories, LAMBDA repo : contains(names, repo.name))

\* Config::filter_by_tag
filter_by_tag(repositories, tag) ==
  IF tag # None
    THEN SelectSeq(repositories, LAMBDA repo : has_tag(repo, tag[2]))
    ELSE repositories

\* (mutant) with a list of names the tag is not looked at
filter_repositories_namesWin(repositories, tag, repos) ==
  IF repos # None THEN filter_by_names(repositories, repos[2])
  ELSE filter_by_tag(repositories, tag)

\* Config::filter_repositories: match (tag, repos)
filter_repositories(repositories, tag, repos) ==
  CASE tag # None /\ repos # None ->
         SelectSeq(filter_by_names(repositories, repos[2]),
                   LAMBDA repo : has_tag(repo, tag[2]))
    [] tag = None /\ repos # None -> filter_by_names(repositories, repos[2])
    [] tag # None /\ repos = None -> filter_by_tag(repositories, tag)
    [] tag = None /\ repos = None -> repositories

\* a catalog in memory and the --tag and --repos of the command line
InitFilter ==
  /\ LibraryStart
  /\ config \in SeqsUpTo({Repository(n, <<"git@", "h">>, t) :
                             n \in RepoNames, t \in TagLists}, NumRepos)
  /\ call \in [tag : {None} \cup {Some(t) : t \in TagNames},
                repos : {None} \cup
                        {Some(q) : q \in SeqsUpTo(QueryNames, MaxNames)}]
  /\ ret = NoRet

FilterRepositories ==
  /\ ret = NoRet
  /\ ret' = <<"filter_repositories",
              filter_repositories(config, call.tag, call.repos)>>
  /\ UNCHANGED <<config, call, libVars>>

FilterByNames ==
  /\ ret = NoRet /\ call.repos # None
  /\ ret' = <<"filter_by_names", filter_by_names(config, call.repos[2])>>
  /\ UNCHANGED <<config, call, libVars>>

FilterByTag ==
  /\ ret = NoRet
  /\ ret' = <<"filter_by_tag", filter_by_tag(config, call.tag)>>
  /\ UNCHANGED <<config, call, libVars>>

NextFilter == FilterRepositories \/ FilterByNames \/ FilterByTag
SpecFilter == InitFilter /\ [][NextFilter]_vars

\* ---- Repository::get_target_dir ----
\* a path is the sequence of its components, "/" first when it is absolute;
\* an OsString component need not be valid UTF-8, a String component is

NotUtf8 == "<FF>"          \* a directory name that is not valid UTF-8
Replacement == "<U+FFFD>"  \* what to_string_lossy puts in its place
StringNames == {"p"}
OsNames == StringNames \cup {NotUtf8}

AbsPaths(names) == {<<"/">> \o q : q \in SeqsUpTo(names, MaxDepth)}
RelPaths(names) == SeqsUpTo(names, MaxDepth)

\* Path::is_absolute
is_absolute(path) == path # <<>> /\ path[1] = "/"
\* Path::join: an absolute argument replaces the base
join(base, path) == IF is_absolute(path) THEN path ELSE base \o path
\* Path::to_string_lossy().to_string()
to_string_lossy(path) ==
  [i \in DOMAIN path |-> IF path[i] = NotUtf8 THEN Replacement ELSE path[i]]

\* std::env::current_dir().unwrap_or_else(|_| PathBuf::from("."))
current_dir_or_dot(cwd) == IF cwd # None THEN cwd[2] ELSE <<".">>

\* Repository::get_target_dir
get_target_dir(repo, cwd) ==
  IF repo.path # None
    THEN IF is_absolute(repo.path[2]) THEN repo.path[2]
         ELSE IF repo.config_dir # None
           THEN to_string_lossy(join(repo.config_dir[2], repo.path[2]))
           ELSE to_string_lossy(join(current_dir_or_dot(cwd), repo.path[2]))
    ELSE LET default_path == <<"cloned_repos", repo.name>> IN
         IF repo.config_dir # None
           THEN to_string_lossy(join(repo.config_dir[2], default_path))
           ELSE to_string_lossy(join(current_dir_or_dot(cwd), default_path))

\* one repository, with or without a path and a catalog directory, and the
\* working directory of the process (None when it cannot be read)
InitTargetDir ==
  /\ LibraryStart
  /\ config \in
       {<<[Repository(n, <<"git@", "h">>, <<>>)
             EXCEPT !.path = p, !.config_dir = d]>> :
          n \in RepoNames,
          p \in {None} \cup {Some(q) : q \in AbsPaths(StringNames)
                                          \cup RelPaths(StringNames)},
          d \in {None} \cup {Some(q) : q \in AbsPaths(OsNames)
                                          \cup RelPaths(OsNames)}}
  /\ call \in [cwd : {None} \cup {Some(q) : q \in AbsPaths(OsNames)}]
  /\ ret = NoRet

GetTargetDir ==
  /\ ret = NoRet
  /\ ret' = <<"get_target_dir", get_target_dir(config[1], call.cwd)>>
  /\ UNCHANGED <<config, call, libVars>>

NextTargetDir == GetTargetDir
SpecTargetDir == InitTargetDir /\ [][NextTargetDir]_vars

\* ---- Config::load and ConfigValidator ----
\* a url is its leading part, as starts_with tells them apart, and a rest

Urls == {<<>>, <<"git@", "h">>, <<"https://", "h">>, <<"http://", "h">>,
         <<"ssh://", "h">>, <<"h">>}
FileNames == {"", "a", "b"}

\* str::starts_with
starts_with(url, prefix) == url # <<>> /\ url[1] = prefix

\* Repository::is_url_valid
is_url_valid(repo) ==
  \/ starts_with(repo.url, "git@")
  \/ starts_with(repo.url, "https://")
  \/ starts_with(repo.url, "http://")

\* Repository::validate
validate(repo) ==
  IF repo.name = "" THEN Err("EmptyName", 0)
  ELSE IF repo.url = <<>> THEN Err("EmptyUrl", 0)
  ELSE IF ~is_url_valid(repo) THEN Err("InvalidUrl", 0)
  ELSE Ok

\* (mutant) the names are not checked for duplicates
validate_repositories_noDup(repos) ==
  IF \E i \in DOMAIN repos : validate(repos[i]) # Ok
    THEN Err("Validation", 0) ELSE Ok

\* ConfigValidator::validate_repositories: an error for every name the
\* HashSet already holds and for every repository that fails validate()
validate_repositories(repos) ==
  LET duplicate == {i \in DOMAIN repos :
                      \E j \in 1..(i - 1) : repos[j].name = repos[i].name}
      invalid == {i \in DOMAIN repos : validate(repos[i]) # Ok} IN
  IF duplicate \cup invalid # {} THEN Err("Validation", 0) ELSE Ok

\* Path::parent
parent(path) ==
  IF path = <<>> \/ path = <<"/">> THEN None
  ELSE Some(SubSeq(path, 1, Len(path) - 1))

\* Config::load: read_to_string and serde_yaml::from_str (content is None
\* when either fails), set_config_dir on every repository, then validation
load(path, content) ==
  IF content = None THEN <<Err("CatalogError", 0), <<>>>>
  ELSE LET repositories ==
             [i \in DOMAIN content[2] |->
                [content[2][i] EXCEPT !.config_dir = parent(path)]] IN
       IF validate_repositories(repositories) = Ok
         THEN <<Ok, repositories>>
         ELSE <<Err("CatalogError", 0), <<>>>>

\* `rrepos pr` is started on a catalog file; the working copies are clean
InitLoad ==
  /\ cmdKind = "pr" /\ createOnly = FALSE /\ parallel \in BOOLEAN
  /\ nrepos = 0 /\ numWorkers = 1
  /\ dpc = "load"
  /\ EngineStart
  /\ \A r \in Repos : ~git[r].dirty
  /\ config = <<>>
  /\ call \in [dir : AbsPaths(StringNames) \cup RelPaths(StringNames),
                file : {"config.yaml"},
                content : {None} \cup
                  {Some(q) : q \in SeqsUpTo({Repository(n, u, <<>>) :
                                n \in FileNames, u \in Urls}, NumRepos)}]
  /\ ret = NoRet

\* let config = Config::load_config(config_file)?; then the filter with no
\* tag given: an error ends main before the dispatcher is entered
LoadConfig ==
  /\ dpc = "load"
  /\ LET loaded == load(call.dir \o <<call.file>>, call.content) IN
       /\ ret' = <<"load", loaded[1]>>
       /\ config' = loaded[2]
       /\ nrepos' = Len(filter_by_tag(loaded[2], None))
       /\ dpc' = IF loaded[1] = Ok THEN "init" ELSE "failed"
  /\ UNCHANGED <<cmdKind, createOnly, parallel, numWorkers, call, run, idx,
                 created, reported, invoked, runVars, fsVars, logFile,
                 childVars, pumpVars, blockingOn, git>>

NextLoad ==
  \/ LoadConfig
  \/ Dispatch
  \/ LoopNext
  \/ \E r \in Repos : PrStart(r)
SpecLoad == InitLoad /\ [][NextLoad]_vars

\* ---- Config::add_repository and Config::remove_repository ----

\* Config::get_repository: the first entry of that name
get_repository(repos, name) ==
  IF \E i \in DOMAIN repos : repos[i].name = name
    THEN Some(repos[CHOOSE i \in DOMAIN repos :
                      /\ repos[i].name = name
                      /\ \A j \in 1..(i - 1) : repos[j].name # name])
    ELSE None

\* (mutant) the name is not looked up before the push
add_repository_noLookup(repos, repo) ==
  IF validate(repo) # Ok THEN <<validate(repo), repos>>
  ELSE <<Ok, Append(repos, repo)>>

\* Config::add_repository: the result and the list afterwards
add_repository(repos, repo) ==
  IF get_repository(repos, repo.name) # None
    THEN <<Err("AlreadyExists", 0), repos>>
  ELSE IF validate(repo) # Ok THEN <<validate(repo), repos>>
  ELSE <<Ok, Append(repos, repo)>>

\* Config::remove_repository: retain, then the lengths compared
remove_repository(repos, name) ==
  LET kept == SelectSeq(repos, LAMBDA x : x.name # name) IN
  <<Len(kept) # Len(repos), kept>>

\* Config::new(), then calls of add_repository and remove_repository
InitEdit ==
  /\ LibraryStart
  /\ config = <<>> /\ call = NoCall /\ ret = NoRet

AddRepository ==
  \E n \in FileNames : \E u \in Urls : \E t \in {<<>>, <<"t">>} :
    LET repo == Repository(n, u, t)
        added == add_repository(config, repo) IN
    /\ call' = <<"add_repository", repo>>
    /\ ret' = <<"add_repository", added[1]>>
    /\ config' = added[2]
    /\ UNCHANGED libVars

RemoveRepository ==
  \E n \in FileNames \cup {"x"} :
    LET removed == remove_repository(config, n) IN
    /\ call' = <<"remove_repository", n>>
    /\ ret' = <<"remove_repository", removed[1]>>
    /\ config' = removed[2]
    /\ UNCHANGED libVars

NextEdit == AddRepository \/ RemoveRepository
SpecEdit == InitEdit /\ [][NextEdit]_vars

\* ======================= the claims =======================

\* the transcript of the invocation running for r
Transcript(r) == files[logFile[r]]
IsPrefix(a, b) == Len(a) <= Len(b) /\ SubSeq(b, 1, Len(a)) = a
IsChildEntry(e) == e[1] \in {"out", "err", "=== STDERR ==="}
MarkerIdx(f) == {i \in 1..Len(f) : f[i][1] = "=== STDERR ==="}
IsFinal(r) == rpc[r] = "done"
IsErr(res) == res # Ok /\ res # NoResult

\* C1: in `run`, sequential or --parallel, run_command is invoked exactly
\* once for each repository of the list, whatever the outcomes: never twice,
\* never for a repository outside the list, and when the dispatcher returns
\* every repository of the list has been invoked, also after failures.
C1_InvokedExactlyOnce ==
  cmdKind = "run" =>
    /\ \A r \in Repos : invoked[r] <= (IF r <= nrepos THEN 1 ELSE 0)
    /\ dpc = "loop" => \A r \in 1..(idx - 1) : invoked[r] = 1 /\ IsFinal(r)
    /\ dpc = "done" => \A r \in 1..nrepos : invoked[r] = 1 /\ IsFinal(r)

\* a --parallel batch has returned: the first repository failed with a
\* non-zero exit code and the second one was still invoked and succeeded
C1_Witness ==
  /\ cmdKind = "run" /\ parallel /\ dpc = "done" /\ nrepos = 2
  /\ result[1] = Err("ExitCode", 1)
  /\ invoked[2] = 1 /\ result[2] = Ok

\* C2: in --parallel mode of `run` and `pr` the operation of every filtered
\* repository has been started by the time the dispatcher waits on the first
\* of them.
C2_AllStartedBeforeAwait ==
  (parallel /\ dpc = "loop") => \A r \in 1..nrepos : invoked[r] = 1

\* C3: in --parallel mode of `run`, once the command of one repository hangs,
\* every other repository of the batch still reaches its final outcome.
C3_HungBlocksNoSibling ==
  \A h \in Repos : \A r \in Repos \ {h} :
    (parallel /\ cmdKind = "run" /\ r <= nrepos /\ child[h] = "hung")
      ~> IsFinal(r)

\* C4: no blocking operation of `run` or `pr` executes on a cooperative
\* scheduler worker.
C4_NoBlockingOnWorker == "worker" \notin blockingOn

\* C5: in sequential mode the operation is invoked at most once per
\* repository, in list order, and the operation of a repository has started
\* only if the operation of every earlier repository has reached its final
\* outcome.
C5_SequentialOrder ==
  ~parallel =>
    \A r \in Repos :
      /\ invoked[r] <= 1
      /\ invoked[r] = 1 => \A q \in 1..(r - 1) : invoked[q] = 1 /\ IsFinal(q)

\* sequential mode: the first repository has failed and the operation of the
\* second one is under way
C5_Witness ==
  /\ ~parallel /\ nrepos = 2
  /\ IsFinal(1) /\ IsErr(result[1])
  /\ invoked[2] = 1 /\ ~IsFinal(2)

\* C6: run_command fails with the directory-missing error only as its first
\* step, and that step spawns no process, creates neither the log directory
\* nor a transcript file and opens no log file.
C6_MissingDirNoEffects ==
  [][\A r \in Repos :
       (result'[r] = Err("DirectoryMissing", 0) /\ result[r] = NoResult) =>
         /\ rpc[r] = "idle" /\ rpc'[r] = "done"
         /\ logDir' = logDir /\ files' = files
         /\ child' = child /\ pump' = pump
         /\ logFile'[r] = NoFile]_vars

\* run_command has failed on a missing directory, the log directory is
\* still missing and no transcript exists
C6_Witness ==
  /\ cmdKind = "run" /\ result[1] = Err("DirectoryMissing", 0)
  /\ ~logDir /\ \A p \in Paths : files[p] = Absent

\* C7: once prepare_log_file has succeeded the transcript is the file
\* <logDir>/<repoName>_<second>.log, and from the spawn of the child on it
\* starts with the whole header block; in every file the header lines come
\* before every line of child output.
C7_HeaderBeforeSpawn ==
  /\ \A r \in Repos :
       rpc[r] \in {"spawn", "join", "wait"} =>
         /\ logFile[r] = <<r, clock \div TicksPerSec>>
         /\ Transcript(r) # Absent
         /\ Len(Transcript(r)) >= 5
         /\ Transcript(r)[1][1] = "Repository"
         /\ Transcript(r)[2][1] = "Command"
         /\ Transcript(r)[3][1] = "Directory"
         /\ Transcript(r)[4][1] = "Timestamp"
         /\ Transcript(r)[5][1] = "=== STDOUT ==="
       /\ (child[r] # "none" => logFile[r] # NoFile)
  /\ \A p \in Paths : \A i \in 1..Len(files[p]) :
       IsChildEntry(files[p][i]) =>
         /\ i > 5
         /\ \A j \in 1..5 : ~IsChildEntry(files[p][j])

\* in a second run, started one second later, the child runs and its first
\* stdout line follows the header block of the transcript of that second
C7_Witness ==
  /\ run = 2 /\ child[1] = "running"
  /\ logFile[1] = <<1, 1>>
  /\ Len(Transcript(1)) = 6 /\ Transcript(1)[6] = <<"out", 1, 1>>

\* C8: a transcript is never shared across invocations: once a transcript
\* file exists, a later invocation neither truncates nor overwrites it, so
\* what it holds stays a prefix of what it holds later.
C8_TranscriptNeverOverwritten ==
  [][\A p \in Paths :
       files[p] # Absent => IsPrefix(files[p], files'[p])]_vars

C10_StdoutBeforeMarker ==
  \A r \in Repos :
    logFile[r] # NoFile =>
      LET f == Transcript(r) IN
      \A i \in 1..Len(f) :
        f[i][1] = "out" => \A j \in MarkerIdx(f) : i < j

\* the lines of stream s in a transcript, in file order
StreamLines(f, s) == SelectSeq(f, LAMBDA e : e[1] = s)
\* the line a pump has read and printed but not yet appended
InFlight(r, s) ==
  IF pump[r][s].pc \in {"lock", "waitlock", "marker", "write"}
    THEN {pump[r][s].line} ELSE {}
\* the lines the pump of stream s has read so far, by their number in the
\* order the child wrote them
LinesRead(r, s) == (1..Consumed(r, s)) \ pump[r][s].bad

Verbatim(s, k) == <<s, 0, k>>

C13_WritesUnderLock ==
  /\ [](\A r \in Repos :
        /\ \A s \in Streams :
             pump[r][s].pc \in {"marker", "write"} => lock[r] = s
        /\ logFile[r] # NoFile =>
             \A i \in MarkerIdx(Transcript(r)) :
               IF i = Len(Transcript(r))
                 THEN pump[r]["err"].pc = "write" /\ lock[r] = "err"
                 ELSE Transcript(r)[i + 1][1] = "err")
  /\ [][\A r \in Repos :
         (rpc[r] = "join" /\ files'[logFile[r]] # files[logFile[r]]) =>
           /\ lock[r] \in Streams
           /\ pump[r][lock[r]].pc \in {"marker", "write"}
           /\ Len(files'[logFile[r]]) = Len(files[logFile[r]]) + 1
           /\ IsPrefix(files[logFile[r]], files'[logFile[r]])]_vars

\* the stderr pump has written the marker and still holds the lock for its
\* first line, while the stdout pump holds a line and waits for the lock
C13_Witness ==
  /\ pump[1]["err"].pc = "write" /\ lock[1] = "err"
  /\ pump[1]["out"].pc = "waitlock"
  /\ Transcript(1)[Len(Transcript(1))] = Marker(1)

C15_OutcomeFromStatus ==
  [][\A r \in Repos :
       (rpc[r] = "wait" /\ rpc'[r] = "done") =>
         result'[r] =
           (IF status[r] = <<"code", 0>> THEN <<"ok", 0>>
            ELSE IF status[r][1] = "code" THEN <<"ExitCode", status[r][2]>>
            ELSE <<"ExitCode", -1>>)]_vars

\* a command killed by a signal after it wrote to stdout and stderr has
\* failed with exit code -1
C15_Witness ==
  /\ rpc[1] = "done" /\ result[1] = <<"ExitCode", -1>>
  /\ Len(StreamLines(files[LogFilePath(1, clock)], "out")) > 0
  /\ Len(StreamLines(files[LogFilePath(1, clock)], "err")) > 0

\* C16: a read error on a child stream ends its pump: once reader.lines()
\* has yielded an error for a stream, the pump reads no further line of that
\* stream and appends no further line of it to the transcript.
C16_ReadErrorEndsPump ==
  [][\A r \in Repos : \A s \in Streams :
       (pump[r][s].bad # {} /\ rpc[r] = "join" /\ rpc'[r] = "join") =>
         /\ (IF s = "out" THEN outR'[r] ELSE errR'[r]) = Consumed(r, s)
         /\ StreamLines(files'[logFile[r]], s)
              = StreamLines(files[logFile[r]], s)]_vars

\* the entries of a catalog a predicate lets through, in catalog order
Chosen(repositories, Keep(_)) == SelectSeq(repositories, Keep)

\* C17 (as stated): filter_repositories(tag, names) returns, in catalog
\* order, exactly the repositories r with (tag absent or tag in r.tags) and
\* (names absent or r.name in names).
C17_FilterIsIntersection ==
  ret[1] = "filter_repositories" =>
    ret[2] = Chosen(config, LAMBDA r :
               /\ (call.tag = None \/ call.tag[2] \in Range(r.tags))
               /\ (call.repos = None \/ r.name \in Range(call.repos[2])))

\* C17 (amended): filter_repositories(tag, names) returns, in catalog order
\* and whatever the order of `names`, exactly the repositories r with (tag
\* absent or tag in r.tags) and (names absent or empty, or r.name in names).
C17_FilterEmptyNamesIsAll ==
  ret[1] = "filter_repositories" =>
    ret[2] = Chosen(config, LAMBDA r :
               /\ (call.tag = None \/ call.tag[2] \in Range(r.tags))
               /\ \/ call.repos = None
                  \/ call.repos[2] = <<>>
                  \/ r.name \in Range(call.repos[2]))

\* tag and names together, an unknown name first: both entries carry the
\* tag, and only the one that is named is returned
C17_Witness ==
  /\ ret[1] = "filter_repositories"
  /\ Len(config) = 2 /\ config[1].name = "a" /\ config[2].name = "b"
  /\ call.tag = Some("t") /\ call.repos = Some(<<"x", "a">>)
  /\ has_tag(config[1], "t") /\ has_tag(config[2], "t")
  /\ ret[2] = <<config[1]>>

\* C18: filter_by_names with an empty list returns every repository of the
\* catalog; with a non-empty list it returns, in catalog order, the
\* repositories whose name is in the list, none when no name matches.
C18_FilterByNames ==
  ret[1] = "filter_by_names" =>
    IF call.repos[2] = <<>> THEN ret[2] = config
    ELSE /\ ret[2] = Chosen(config, LAMBDA r :
                       r.name \in Range(call.repos[2]))
         /\ (Range(call.repos[2]) \cap {config[i].name : i \in DOMAIN config}
               = {}) => ret[2] = <<>>

\* the empty list on a catalog of two entries returns both
C18_Witness ==
  /\ ret[1] = "filter_by_names" /\ call.repos = Some(<<>>)
  /\ Len(config) = 2 /\ ret[2] = config

\* C19: get_target_dir returns the path as it is when it is set and
\* absolute, the catalog directory joined with the path when it is set and
\* relative, and <catalog-dir>/cloned_repos/<name> when it is unset, the
\* working directory of the process standing in for a catalog directory
\* that is unknown.
C19_TargetDir ==
  ret[1] = "get_target_dir" =>
    LET repo == config[1]
        dir == IF repo.config_dir # None THEN repo.config_dir[2]
               ELSE IF call.cwd # None THEN call.cwd[2] ELSE <<".">> IN
    ret[2] = (IF repo.path = None THEN dir \o <<"cloned_repos", repo.name>>
              ELSE IF repo.path[2] # <<>> /\ repo.path[2][1] = "/"
                THEN repo.path[2]
              ELSE dir \o repo.path[2])

\* what makes a catalog unfit to load, the shapes of a url being given
InvalidCatalog(repos, shapes) ==
  \/ \E i \in DOMAIN repos : \E j \in DOMAIN repos :
       i # j /\ repos[i].name = repos[j].name
  \/ \E i \in DOMAIN repos :
       \/ repos[i].name = ""
       \/ repos[i].url = <<>>
       \/ repos[i].url[1] \notin shapes

\* loading fails on an unfit catalog before any repository is operated on,
\* and a loaded catalog is fit and carries the directory of its file
LoadContract(shapes) ==
  /\ dpc \in {"load", "failed"} =>
       \A r \in Repos : invoked[r] = 0 /\ rpc[r] = "idle"
  /\ (call.content # None /\ InvalidCatalog(call.content[2], shapes)) =>
       /\ dpc \in {"load", "failed"}
       /\ ret # NoRet => dpc = "failed" /\ ret[2] # Ok
  /\ dpc \notin {"load", "failed"} =>
       /\ ret = <<"load", Ok>>
       /\ ~InvalidCatalog(config, shapes)
       /\ Len(config) = Len(call.content[2])
       /\ \A i \in DOMAIN config :
            /\ config[i].name = call.content[2][i].name
            /\ config[i].url = call.content[2][i].url
            /\ config[i].config_dir = Some(call.dir)

\* C20 (as stated): loading a catalog fails, before any per-repository
\* operation is started, whenever two repositories share a name, a name is
\* empty, a url is empty or a url has neither the SSH nor the HTTPS shape;
\* a catalog that loads has pairwise distinct non-empty names and urls of
\* those shapes, and each repository carries the catalog file's directory.
C20_LoadRejectsInvalid == LoadContract({"git@", "https://"})

\* C20 (amended): the same with the shapes the code recognises: a url that
\* starts with `git@`, `https://` or `http://`.
C20_LoadRejectsUnrecognised == LoadContract({"git@", "https://", "http://"})

\* a catalog of two repositories, one of them with a plain http url, has
\* loaded from /p/config.yaml and the dispatcher has gone through both
C20_Witness ==
  /\ dpc = "done" /\ Len(config) = 2 /\ invoked[2] = 1
  /\ config[1].url = <<"http://", "h">>
  /\ config[2].config_dir = Some(<<"/", "p">>)

\* C21: once the catalog has loaded, a batch (clone, run, pr, rm) never
\* returns an error: while it runs it can always take a step, and when it has
\* returned, the exit code is 0, every repository of the list was operated on
\* once, whatever the results of the others, and exactly the failures were
\* reported on the error stream.
C21_BatchReturnsOk ==
  /\ main_exit # <<"exit", 1>>
  /\ main_exit = <<"running", 0>> => ENABLED NextBatch
  /\ main_exit = <<"exit", 0>> =>
       \A r \in 1..nrepos :
         /\ invoked[r] = 1 /\ IsFinal(r)
         /\ IsErr(result[r]) <=> r \in reported
\* C21 witness: of three repositories only the second failed
C21_Witness ==
  /\ main_exit = <<"exit", 0>> /\ nrepos >= 3 /\ reported = {2}
  /\ result[1] = Ok /\ IsErr(result[2]) /\ result[3] = Ok

Untouched(g) == ~g.branch /\ g.commits = 0 /\ ~g.pushed /\ g.prs = 0

\* C23: in pr, when has_changes finds no uncommitted change the workflow
\* ends at once with Ok and no further step runs: no branch is created,
\* nothing is committed or pushed, the pull request API is not called; a
\* working copy that was clean from the start is never touched.
C23_NoChangesNoSteps ==
  /\ [](\A r \in 1..nrepos :
         (cmdKind = "pr" /\ ~git[r].dirty /\ git[r].commits = 0) =>
           /\ rpc[r] \in {"idle", "done"} /\ Untouched(git[r])
           /\ IsFinal(r) => result[r] \in {Ok, Err("GitError", 0)})
  /\ [][\A r \in 1..nrepos :
         (cmdKind = "pr" /\ rpc[r] = "idle" /\ rpc'[r] # "idle"
            /\ ~git[r].dirty /\ result'[r] # Err("GitError", 0)) =>
           (rpc'[r] = "done" /\ result'[r] = Ok /\ git' = git)]_vars
\* C23 witness: a clean repository was processed and yielded Ok untouched
C23_Witness ==
  \E r \in 1..nrepos :
    /\ cmdKind = "pr" /\ IsFinal(r) /\ result[r] = Ok /\ invoked[r] = 1
    /\ ~git[r].dirty /\ Untouched(git[r])

\* the positions of the pr workflow in their order
PrOrder == <<"idle", "branch", "add", "commit", "push", "api", "done">>
PrPos(pc) == CHOOSE i \in 1..Len(PrOrder) : PrOrder[i] = pc

\* C24: in pr with uncommitted changes the steps run strictly in the order
\* branch, stage, commit, push, create PR: each step is followed by the next
\* one or by the end of the workflow; the first failing step ends it with a
\* failure and nothing runs afterwards (no later step, no retry), while the
\* dispatcher still goes through the other repositories; with --create-only
\* the workflow ends with Ok after the commit, without push or API call.
C24_StepsInOrder ==
  /\ [](cmdKind = "pr" =>
         /\ \A r \in 1..nrepos :
              /\ invoked[r] <= 1
              /\ git[r].branch => PrPos(rpc[r]) >= 3
              /\ PrPos(rpc[r]) \in 3..6 => git[r].branch
              /\ PrPos(rpc[r]) \in 5..6 => git[r].commits = 1
              /\ PrPos(rpc[r]) = 6 => git[r].pushed
              /\ git[r].commits = 1 => git[r].branch /\ PrPos(rpc[r]) >= 5
              /\ git[r].commits \in {0, 1}
              /\ git[r].pushed => git[r].commits = 1 /\ PrPos(rpc[r]) >= 6
              /\ git[r].prs = 1 => git[r].pushed /\ IsFinal(r) /\ result[r] = Ok
              /\ git[r].prs \in {0, 1}
              /\ createOnly => ~git[r].pushed /\ git[r].prs = 0
              /\ (createOnly /\ git[r].commits = 1) => IsFinal(r) /\ result[r] = Ok
              /\ (~createOnly /\ IsFinal(r) /\ result[r] = Ok /\ git[r].commits = 1)
                   => git[r].prs = 1
         /\ main_exit = <<"exit", 0>> => \A r \in 1..nrepos : invoked[r] = 1)
  /\ [][cmdKind = "pr" => \A r \in 1..nrepos :
         /\ rpc'[r] # rpc[r] =>
              \/ PrPos(rpc'[r]) = PrPos(rpc[r]) + 1
              \/ rpc'[r] = "done"
         /\ (rpc'[r] # rpc[r] /\ IsErr(result'[r])) =>
              rpc'[r] = "done" /\ git'[r] = git[r]
         /\ rpc[r] = "done" =>
              rpc'[r] = "done" /\ git'[r] = git[r] /\ result'[r] = result[r]]_vars
\* C24 witness: with --create-only one workflow failed after its branch was
\* created, and a later repository still went through to its commit
C24_Witness ==
  /\ cmdKind = "pr" /\ createOnly /\ nrepos >= 2
  /\ result[1] = Err("GitError", 0) /\ git[1].branch /\ git[1].commits = 0
  /\ result[2] = Ok /\ git[2].commits = 1 /\ ~git[2].pushed

\* C30: the pr workflow undoes nothing when it fails: a failure at the push
\* or at the pull request API call leaves the working copy as the step found
\* it, on the new branch with the changes committed; and a workflow started
\* on a working copy committed by an earlier run finds no uncommitted change
\* and ends at once with Ok (has_changes itself permitting), so that no
\* push and no API call is made for it in that or any later run.
C30_NothingUndone ==
  /\ [](\A r \in 1..nrepos :
         git[r].commits >= 1 =>
           git[r].branch /\ ~git[r].dirty /\ git[r].commits = 1)
  /\ [][\A r \in 1..nrepos :
         /\ (rpc[r] \in {"push", "api"} /\ IsErr(result'[r])) =>
              /\ git'[r] = git[r]
              /\ git[r].branch /\ git[r].commits = 1 /\ ~git[r].dirty
         /\ (rpc[r] = "idle" /\ rpc'[r] # "idle" /\ git[r].commits >= 1) =>
              /\ rpc'[r] = "done" /\ git'[r] = git[r]
              /\ result'[r] \in {Ok, Err("GitError", 0)}
         /\ (run >= 2 /\ rpc[r] = "idle" /\ git[r].commits >= 1) =>
              (git'[r].pushed = git[r].pushed /\ git'[r].prs = git[r].prs)]_vars
\* C30 witness: the workflow failed at the push or the API call in an earlier
\* run and the run after it ended with Ok, the commit still unpublished
C30_Witness ==
  /\ run >= 2 /\ ~createOnly /\ IsFinal(1) /\ result[1] = Ok /\ invoked[1] = 1
  /\ git[1].commits = 1 /\ git[1].branch /\ git[1].prs = 0

\* the names of a list are pairwise distinct
DistinctNames(repos) ==
  \A i, j \in DOMAIN repos : repos[i].name = repos[j].name => i = j

\* C25: from an empty Config, after any sequence of add_repository and
\* remove_repository no two entries share a name and every entry passes
\* validate(); add_repository of an existing name or of an invalid
\* repository returns an error and leaves the list as it was, and otherwise
\* appends the repository; remove_repository returns true exactly when an
\* entry of that name was present, leaves no entry of that name and keeps
\* the other entries in their order.
C25_EditsKeepCatalogValid ==
  /\ [](DistinctNames(config) /\ \A i \in DOMAIN config : validate(config[i]) = Ok)
  /\ [][/\ call'[1] = "add_repository" =>
            LET repo == call'[2] IN
            IF (\E i \in DOMAIN config : config[i].name = repo.name)
                 \/ validate(repo) # Ok
              THEN IsErr(ret'[2]) /\ config' = config
              ELSE ret'[2] = Ok /\ config' = config \o <<repo>>
        /\ call'[1] = "remove_repository" =>
            LET name == call'[2] IN
            /\ ret'[2] = (\E i \in DOMAIN config : config[i].name = name)
            /\ \A i \in DOMAIN config' : config'[i].name # name
            /\ config' = Chosen(config, LAMBDA x : x.name # name)]_<<config, call, ret>>
\* C25 witness: an add of a name already in the two-entry list was refused
C25_Witness ==
  /\ Len(config) = 2 /\ call[1] = "add_repository"
  /\ ret = <<"add_repository", Err("AlreadyExists", 0)>>

\* C28: when prepare_log_file fails (the log directory or the transcript
\* cannot be created, or the header cannot be written) run_command ends for
\* that repository with an error before anything is spawned: no child and no
\* pump exists for it, then or later, a child only ever runs with its
\* transcript prepared, and the dispatcher reports the error as it reports a
\* failed command.
C28_LogFailureBeforeSpawn ==
  /\ [](\A r \in 1..nrepos :
         /\ result[r] = Err("LogError", 0) =>
              /\ IsFinal(r) /\ child[r] = "none" /\ status[r] = NoStatus
              /\ logFile[r] = NoFile
              /\ \A s \in Streams : pump[r][s] = IdlePump
              /\ (dpc = "done" \/ idx > r) => r \in reported
         /\ child[r] # "none" => logFile[r] # NoFile)
  /\ [][\A r \in 1..nrepos :
         (rpc[r] = "prep" /\ rpc'[r] = "done") =>
           (result'[r] = Err("LogError", 0) /\ child' = child /\ pump' = pump)]_vars
\* C28 witness: the transcript of the first repository could not be
\* prepared, its error was reported, and the next command was started
C28_Witness ==
  /\ nrepos >= 2 /\ result[1] = Err("LogError", 0) /\ 1 \in reported
  /\ child[1] = "none" /\ child[2] # "none"

\* the kinds of line of the header block
HeaderKinds == {Header(1)[i][1] : i \in 1..Len(Header(1))}

\* C26: a transcript holds its header block once; and a line a pump appends
\* is in the file when that pump gives up the lock, before it reads its next
\* line: at every state the file holds every line of a stream its pump has
\* taken through the append, whatever happens to the process afterwards.
C26_FlushedBeforeUnlock ==
  /\ [](/\ \A p \in Paths : \A h \in HeaderKinds :
            Cardinality({i \in 1..Len(files[p]) : files[p][i][1] = h}) <= 1
        /\ \A r \in Repos :
             logFile[r] # NoFile =>
               /\ IsPrefix(Header(r), Transcript(r))
               /\ \A s \in Streams :
                    pump[r][s].pc \in {"read", "done"} =>
                      /\ lock[r] # s
                      /\ Len(StreamLines(Transcript(r), s))
                           = Cardinality(LinesRead(r, s)))
  /\ [][\A r \in Repos : \A s \in Streams :
         (lock[r] = s /\ lock'[r] # s) =>
           LET f == files'[logFile[r]] IN
           /\ f[Len(f)] = LogLine(r, s, pump[r][s].line)
           /\ pump'[r][s].pc = "read"]_vars
\* C26 witness: the stderr pump has appended its line after the marker and
\* gone back to read the next one while the child still runs
C26_Witness ==
  /\ logFile[1] # NoFile /\ lock[1] = "free"
  /\ pump[1]["err"].pc = "read" /\ errR[1] = 1 /\ child[1] = "running"
  /\ Len(Transcript(1)) = 7 /\ Transcript(1)[7] = LogLine(1, "err", 1)

\* C29: a write to the transcript that fails while the child runs changes
\* nothing else: the pump that held the line releases the lock and goes on
\* to read its next line, both pumps still consume (and print) everything
\* the child wrote before run_command goes on, and the outcome is the one
\* the exit status gives.
C29_WriteFailureIgnored ==
  /\ [](\A r \in Repos :
         rpc[r] = "wait" =>
           \A s \in Streams :
             pump[r][s].pc = "done" /\ Consumed(r, s) = Written(r, s))
  /\ [][\A r \in Repos :
         /\ \A s \in Streams :
              (pump[r][s].pc = "write" /\ pump'[r][s].pc # "write") =>
                (pump'[r][s].pc = "read" /\ lock'[r] # s
                   /\ result' = result /\ rpc' = rpc /\ child' = child)
         /\ (pump[r]["err"].pc = "marker" /\ pump'[r]["err"].pc # "marker") =>
              pump'[r]["err"].pc = "write"
         /\ (rpc[r] = "wait" /\ rpc'[r] = "done") =>
              result'[r] = Outcome(status[r])]_vars
\* C29 witness: the command has succeeded although of the stderr lines read
\* only the marker reached the transcript
C29_Witness ==
  /\ IsFinal(1) /\ result[1] = Ok
  /\ files[LogFilePath(1, clock)] = Header(1) \o <<Marker(1)>>

\* the pump of stream s sits in a read of its empty pipe on a worker thread
ReadBlocked(r, s) ==
  pump[r][s].pc = "read" /\ Consumed(r, s) = Written(r, s)
\* the child has more to write to stream s and the pipe is full
WriteBlocked(r, s) ==
  /\ child[r] = "running" /\ linesLeft > 0
  /\ Written(r, s) - Consumed(r, s) = PipeCap

\* C27: whatever the number of worker threads and the capacity of the
\* pipes, the two pumps and the child of a command that exits once its
\* output is read never block one another: no pump sits in a read on a
\* worker while the child is blocked writing to the other stream, whose pump
\* has no worker to run on; run_command can always go on until its outcome.
C27_PumpsNeverDeadlock ==
  /\ \A r \in Repos : \A s \in Streams :
       ~(/\ ReadBlocked(r, s) /\ WriteBlocked(r, Other(s))
         /\ pump[r][Other(s)].pc = "ready" /\ BusyWorkers = numWorkers)
  /\ dpc # "done" => ENABLED NextPipe
====
